---- MODULE Spec2Model ----
(***************************************************************************)
(* Synergia event-booking API (synergia-api/server.js): two in-memory      *)
(* tables, events and bookings, and the ten express handlers over them.    *)
(*                                                                         *)
(* JavaScript values are modelled as follows.                              *)
(*   - a JS number is a record [nan, v]: NaN is [nan |-> TRUE, v |-> 0];   *)
(*   - a raw JSON value that the code passes through Number() is           *)
(*     [t |-> "number", n |-> i] or [t |-> "string", s |-> <<chars>>];     *)
(*   - opaque text fields (title, name, ...) are TLA+ strings, "" being    *)
(*     the falsy empty string;                                             *)
(*   - a request body is a record whose DOMAIN is the set of keys present, *)
(*     so body.k === undefined is  k \notin DOMAIN body.                   *)
(***************************************************************************)
EXTENDS Integers, Sequences, FiniteSets, TLC

\* events, bookings: the two tables, in insertion order
\* req, res: the request answered last (route, path id, body) and the status
\*           and JSON payload sent for it
\* made: number of records created since start-up
\* held, delMax: history of the ids handed out and deleted (SpecHist)
\* inflight: the locals of booking creations between their sum step and
\*           their append (SpecRace)
VARIABLES events, bookings, req, res, made, held, delMax, inflight

vars == <<events, bookings, req, res, made, held, delMax, inflight>>

(* ------------------------------ bounds --------------------------------- *)
\* records created after start-up in one run
MaxCreates == 2

(* --------------------------- JS number model --------------------------- *)
Num(i) == [nan |-> FALSE, v |-> i]
NaN == [nan |-> TRUE, v |-> 0]

\* a + b on JS numbers
Plus(a, b) == IF a.nan \/ b.nan THEN NaN ELSE Num(a.v + b.v)

\* a > b on JS numbers: false as soon as one side is NaN
Gt(a, b) == ~a.nan /\ ~b.nan /\ a.v > b.v

\* a === b for a JS number a and a stored integer id b
StrictEqId(a, b) == ~a.nan /\ a.v = b

Digits == <<"0", "1", "2", "3", "4", "5", "6", "7", "8", "9">>

IsDigit(c) == \E i \in 1..10 : Digits[i] = c

DigitVal(c) == (CHOOSE i \in 1..10 : Digits[i] = c) - 1

RECURSIVE DecVal(_)
DecVal(s) == IF s = <<>> THEN 0
             ELSE 10 * DecVal(SubSeq(s, 1, Len(s) - 1)) + DigitVal(s[Len(s)])

AllDigits(s) == s # <<>> /\ \A i \in 1..Len(s) : IsDigit(s[i])

\* Number(string): "" is 0, an optionally signed decimal integer is its
\* value, anything else is NaN (fractions, exponents, hex and blanks are
\* outside the inputs drawn here)
StrToNumber(s) ==
    IF s = <<>> THEN Num(0)
    ELSE IF AllDigits(s) THEN Num(DecVal(s))
    ELSE IF s[1] = "-" /\ AllDigits(Tail(s)) THEN Num(0 - DecVal(Tail(s)))
    ELSE NaN

\* Number(x) for a raw JSON number or string
ToNumber(x) == IF x.t = "number" THEN Num(x.n) ELSE StrToNumber(x.s)

\* !x for a raw JSON number or string
FalsyRaw(x) == IF x.t = "number" THEN x.n = 0 ELSE x.s = <<>>

RawNum(i) == [t |-> "number", n |-> i]
RawStr(s) == [t |-> "string", s |-> s]

Has(body, k) == k \in DOMAIN body

\* !body.k for an opaque text field
MissingText(body, k) == ~Has(body, k) \/ body[k] = ""

\* !body.k for a field later passed through Number()
MissingRaw(body, k) == ~Has(body, k) \/ FalsyRaw(body[k])

\* body.k || ''
TextOrEmpty(body, k) == IF Has(body, k) THEN body[k] ELSE ""

(* ------------------------------ helpers -------------------------------- *)
Ids(arr) == {arr[i].id : i \in 1..Len(arr)}

MaxOf(S) == CHOOSE m \in S : \A x \in S : x <= m

\* variant: the table's length plus one
nextId_ByLength(arr) == Len(arr) + 1

\* variant: the lowest id not in the table
nextId_LowestFree(arr) ==
    CHOOSE n \in 1..(Len(arr) + 1) :
        n \notin Ids(arr) /\ \A m \in 1..(n - 1) : m \in Ids(arr)

nextId(arr) == IF Len(arr) # 0 THEN MaxOf(Ids(arr)) + 1 ELSE 1

\* arr.findIndex(x => x.id === id), 0 standing for -1
FindIndex(arr, id) ==
    IF \E i \in 1..Len(arr) : StrictEqId(id, arr[i].id)
    THEN CHOOSE i \in 1..Len(arr) :
            /\ StrictEqId(id, arr[i].id)
            /\ \A j \in 1..(i - 1) : ~StrictEqId(id, arr[j].id)
    ELSE 0

\* arr.reduce((s, b) => s + Number(b.seats), 0)
RECURSIVE SumSeats(_)
SumSeats(arr) ==
    IF arr = <<>> THEN Num(0)
    ELSE Plus(SumSeats(SubSeq(arr, 1, Len(arr) - 1)), arr[Len(arr)].seats)

\* arr.splice(i, 1)
RemoveAt(arr, i) == SubSeq(arr, 1, i - 1) \o SubSeq(arr, i + 1, Len(arr))

Ok(status, body) == [status |-> status, body |-> body]

\* variant: every error is sent as 400
Err_Always400(status, msg) == [status |-> 400, error |-> msg]

Err(status, msg) == [status |-> status, error |-> msg]

(* ------------------------------- inputs -------------------------------- *)
\* req.params.id as it arrives, a string
PathIds == {<<"1">>, <<"2">>, <<"x">>}

\* bodies of POST /events/add
EventCreateBodies ==
    { [title |-> "T1", date |-> "2026-01-01", capacity |-> RawStr(<<"2">>)],
      [title |-> "", date |-> "2026-01-01", capacity |-> RawNum(2),
       description |-> "D1", location |-> "L1"],
      [title |-> "T1", date |-> "2026-01-01", capacity |-> RawNum(0)] }

\* bodies of PUT /event/:id
EventUpdateBodies ==
    { [capacity |-> RawNum(0), title |-> "T2", id |-> 9] }

\* bodies of POST /api/bookings
BookingCreateBodies ==
    { [eventId |-> RawNum(1), name |-> "n1", email |-> "e1", phone |-> "p1",
       seats |-> RawNum(99)],
      [eventId |-> RawNum(1), name |-> "n1", email |-> "e1", phone |-> "p1",
       seats |-> RawNum(100)],
      [eventId |-> RawStr(<<"2">>), name |-> "n1", email |-> "e1",
       seats |-> RawNum(1)],
      [eventId |-> RawNum(1), name |-> "n1", email |-> "e1", phone |-> "p1",
       seats |-> RawStr(<<"a", "b">>)],
      [eventId |-> RawNum(7), name |-> "n1", email |-> "e1",
       seats |-> RawNum(0)],
      [eventId |-> RawNum(7), name |-> "n1", email |-> "e1",
       seats |-> RawNum(1000)],
      [eventId |-> RawNum(1), email |-> "e1", seats |-> RawNum(1000)] }

\* bodies of PUT /api/bookings/:id
BookingUpdateBodies ==
    { [seats |-> RawNum(100)],
      [seats |-> RawNum(101), name |-> "n2", email |-> "e2", phone |-> "p2"],
      [seats |-> RawStr(<<"a", "b">>)],
      [name |-> "n1", email |-> "e1", phone |-> "p1",
       id |-> 9, eventId |-> 2, createdAt |-> 5] }

\* values of new Date().toISOString() after start-up
Times == {1}

(* ------------------------------ seed state ----------------------------- *)
SeedCapacity == 100

SeedEvents ==
    << [id |-> 1, title |-> "Synergia Tech Talk",
        description |-> "A tech talk on fullstack development",
        date |-> "2025-12-10", capacity |-> Num(SeedCapacity),
        location |-> "Main Auditorium"] >>

SeedBookings ==
    << [id |-> 1, eventId |-> 1, name |-> "Alice Kumar",
        email |-> "alice@example.com", phone |-> "9876543210",
        seats |-> Num(1), createdAt |-> 0] >>

Procs == {1, 2}

Idle == [pc |-> "idle"]

Init ==
    /\ events = SeedEvents
    /\ bookings = SeedBookings
    /\ req = [op |-> "none"]
    /\ res = [status |-> 0]
    /\ made = 0
    /\ held = [E |-> Ids(SeedEvents), B |-> Ids(SeedBookings)]
    /\ delMax = [E |-> {}, B |-> {}]
    /\ inflight = [p \in Procs |-> Idle]

(* --------------------------- events endpoints -------------------------- *)
GetEvents ==
    /\ req' = [op |-> "GetEvents"]
    /\ res' = Ok(200, events)
    /\ UNCHANGED <<events, bookings>>

PostEvent(body) ==
    /\ req' = [op |-> "PostEvent", body |-> body]
    /\ IF MissingText(body, "title") \/ MissingText(body, "date")
          \/ MissingRaw(body, "capacity")
       THEN /\ res' = Err(400, "title, date and capacity are required")
            /\ UNCHANGED events
       ELSE LET event == [id |-> nextId(events),
                          title |-> body.title,
                          description |-> TextOrEmpty(body, "description"),
                          date |-> body.date,
                          capacity |-> ToNumber(body.capacity),
                          location |-> TextOrEmpty(body, "location")]
            IN  /\ events' = Append(events, event)
                /\ res' = Ok(201, event)
    /\ UNCHANGED bookings

\* variant: the first event whose id does not exceed the requested one
GetEvent_FirstAtMost(pid) ==
    LET id == StrToNumber(pid)
        hit == {i \in 1..Len(events) : ~id.nan /\ events[i].id <= id.v}
    IN  /\ req' = [op |-> "GetEvent", id |-> pid]
        /\ res' = IF hit = {} THEN Err(404, "Event not found")
                  ELSE Ok(200, events[CHOOSE i \in hit : \A j \in hit : i <= j])
        /\ UNCHANGED <<events, bookings>>

GetEvent(pid) ==
    LET id == StrToNumber(pid)
        i == FindIndex(events, id)
    IN  /\ req' = [op |-> "GetEvent", id |-> pid]
        /\ res' = IF i = 0 THEN Err(404, "Event not found") ELSE Ok(200, events[i])
        /\ UNCHANGED <<events, bookings>>

\* the allowed.forEach assignment of PUT /event/:id
\* variant: Object.assign of the whole body, the id included
ApplyEventUpdate_AssignAll(e, update) ==
    [id |-> IF Has(update, "id") THEN update.id ELSE e.id,
     title |-> IF Has(update, "title") THEN update.title ELSE e.title,
     description |-> IF Has(update, "description") THEN update.description
                     ELSE e.description,
     date |-> IF Has(update, "date") THEN update.date ELSE e.date,
     capacity |-> IF Has(update, "capacity") THEN ToNumber(update.capacity)
                  ELSE e.capacity,
     location |-> IF Has(update, "location") THEN update.location
                  ELSE e.location]

ApplyEventUpdate(e, update) ==
    [id |-> e.id,
     title |-> IF Has(update, "title") THEN update.title ELSE e.title,
     description |-> IF Has(update, "description") THEN update.description
                     ELSE e.description,
     date |-> IF Has(update, "date") THEN update.date ELSE e.date,
     capacity |-> IF Has(update, "capacity") THEN ToNumber(update.capacity)
                  ELSE e.capacity,
     location |-> IF Has(update, "location") THEN update.location
                  ELSE e.location]

PutEvent(pid, update) ==
    LET id == StrToNumber(pid)
        evIndex == FindIndex(events, id)
    IN  /\ req' = [op |-> "PutEvent", id |-> pid, body |-> update]
        /\ IF evIndex = 0
           THEN /\ res' = Err(404, "Event not found")
                /\ UNCHANGED events
           ELSE /\ events' = [events EXCEPT
                                ![evIndex] = ApplyEventUpdate(@, update)]
                /\ res' = Ok(200, events'[evIndex])
        /\ UNCHANGED bookings

\* variant: the bookings of the event are kept
DeleteEvent_NoCascade(pid) ==
    LET id == StrToNumber(pid)
        evIndex == FindIndex(events, id)
    IN  /\ req' = [op |-> "DeleteEvent", id |-> pid]
        /\ IF evIndex = 0
           THEN /\ res' = Err(404, "Event not found")
                /\ UNCHANGED <<events, bookings>>
           ELSE /\ events' = RemoveAt(events, evIndex)
                /\ UNCHANGED bookings
                /\ res' = Ok(200, [message |-> "Event cancelled",
                                   event |-> events[evIndex]])

DeleteEvent(pid) ==
    LET id == StrToNumber(pid)
        evIndex == FindIndex(events, id)
    IN  /\ req' = [op |-> "DeleteEvent", id |-> pid]
        /\ IF evIndex = 0
           THEN /\ res' = Err(404, "Event not found")
                /\ UNCHANGED <<events, bookings>>
           ELSE /\ events' = RemoveAt(events, evIndex)
                /\ bookings' = SelectSeq(bookings,
                                   LAMBDA b : ~StrictEqId(id, b.eventId))
                /\ res' = Ok(200, [message |-> "Event cancelled",
                                   event |-> events[evIndex]])

(* -------------------------- bookings endpoints ------------------------- *)
GetBookings ==
    /\ req' = [op |-> "GetBookings"]
    /\ res' = Ok(200, bookings)
    /\ UNCHANGED <<events, bookings>>

\* bookings.filter(b => b.eventId === eid)
BookingsOf(arr, eid) == SelectSeq(arr, LAMBDA b : StrictEqId(eid, b.eventId))

\* variant: the seats already booked are left out of the test
NotEnoughSeats_IgnoringBooked(seatsBooked, seatsRequested, capacity) ==
    Gt(seatsRequested, capacity)

\* variant: >= in place of >
NotEnoughSeats_AtCapacity(seatsBooked, seatsRequested, capacity) ==
    Gt(Plus(Plus(seatsBooked, seatsRequested), Num(1)), capacity)

\* variant: a request whose seats are not a number is turned away
NotEnoughSeats_RejectNaN(seatsBooked, seatsRequested, capacity) ==
    seatsRequested.nan \/ Gt(Plus(seatsBooked, seatsRequested), capacity)

\* the capacity test of POST /api/bookings
NotEnoughSeats(seatsBooked, seatsRequested, capacity) ==
    Gt(Plus(seatsBooked, seatsRequested), capacity)

\* the record built by POST /api/bookings
NewBooking(arr, body, t) ==
    [id |-> nextId(arr),
     eventId |-> ToNumber(body.eventId).v,
     name |-> body.name,
     email |-> body.email,
     phone |-> TextOrEmpty(body, "phone"),
     seats |-> ToNumber(body.seats),
     createdAt |-> t]

BookingFieldsMissing(body) ==
    \/ MissingRaw(body, "eventId")
    \/ MissingText(body, "name")
    \/ MissingText(body, "email")
    \/ MissingRaw(body, "seats")

\* variant: the event is looked up before the required fields are tested
PostBooking_EventFirst(body, t) ==
    /\ req' = [op |-> "PostBooking", body |-> body]
    /\ IF ~MissingRaw(body, "eventId")
          /\ FindIndex(events, ToNumber(body.eventId)) = 0
       THEN /\ res' = Err(404, "Event not found")
            /\ UNCHANGED bookings
       ELSE IF BookingFieldsMissing(body)
       THEN /\ res' = Err(400, "eventId, name, email and seats are required")
            /\ UNCHANGED bookings
       ELSE LET eid == ToNumber(body.eventId)
                i == FindIndex(events, eid)
                seatsRequested == ToNumber(body.seats)
                seatsBooked == SumSeats(BookingsOf(bookings, eid))
            IN  IF NotEnoughSeats(seatsBooked, seatsRequested, events[i].capacity)
                THEN /\ res' = Err(400, "Not enough seats available")
                     /\ UNCHANGED bookings
                ELSE LET booking == NewBooking(bookings, body, t)
                     IN  /\ bookings' = Append(bookings, booking)
                         /\ res' = Ok(201, booking)
    /\ UNCHANGED events

PostBooking(body, t) ==
    /\ req' = [op |-> "PostBooking", body |-> body]
    /\ IF BookingFieldsMissing(body)
       THEN /\ res' = Err(400, "eventId, name, email and seats are required")
            /\ UNCHANGED bookings
       ELSE LET eid == ToNumber(body.eventId)
                i == FindIndex(events, eid)
            IN  IF i = 0
                THEN /\ res' = Err(404, "Event not found")
                     /\ UNCHANGED bookings
                ELSE LET seatsRequested == ToNumber(body.seats)
                         seatsBooked == SumSeats(BookingsOf(bookings, eid))
                     IN  IF NotEnoughSeats(seatsBooked, seatsRequested,
                                           events[i].capacity)
                         THEN /\ res' = Err(400, "Not enough seats available")
                              /\ UNCHANGED bookings
                         ELSE LET booking == NewBooking(bookings, body, t)
                              IN  /\ bookings' = Append(bookings, booking)
                                  /\ res' = Ok(201, booking)
    /\ UNCHANGED events

GetBooking(pid) ==
    LET id == StrToNumber(pid)
        i == FindIndex(bookings, id)
    IN  /\ req' = [op |-> "GetBooking", id |-> pid]
        /\ res' = IF i = 0 THEN Err(404, "Booking not found")
                  ELSE Ok(200, bookings[i])
        /\ UNCHANGED <<events, bookings>>

\* bookings of the same event other than the one being updated
OtherBookings(arr, idx) ==
    SelectSeq(arr, LAMBDA b : b.eventId = arr[idx].eventId /\ b.id # arr[idx].id)

\* variant: the other bookings' seats are left out of the test
NotEnoughForUpdate_IgnoringOthers(seatsOther, newSeats, capacity) ==
    Gt(newSeats, capacity)

\* the capacity test of PUT /api/bookings/:id
NotEnoughForUpdate(seatsOther, newSeats, capacity) ==
    Gt(Plus(seatsOther, newSeats), capacity)

\* the ['name','email','phone'].forEach assignment
ApplyBookingText(b, update) ==
    [b EXCEPT !.name = IF Has(update, "name") THEN update.name ELSE @,
              !.email = IF Has(update, "email") THEN update.email ELSE @,
              !.phone = IF Has(update, "phone") THEN update.phone ELSE @]

\* variant: name, email and phone are assigned before the seats are tested
PutBooking_TextFirst(pid, update) ==
    LET id == StrToNumber(pid)
        idx == FindIndex(bookings, id)
    IN  /\ req' = [op |-> "PutBooking", id |-> pid, body |-> update]
        /\ IF idx = 0
           THEN /\ res' = Err(404, "Booking not found")
                /\ UNCHANGED bookings
           ELSE LET ei == FindIndex(events, Num(bookings[idx].eventId))
                    newSeats == ToNumber(update.seats)
                    seatsOther == SumSeats(OtherBookings(bookings, idx))
                    b0 == ApplyBookingText(bookings[idx], update)
                IN  IF Has(update, "seats") /\ ei = 0
                    THEN /\ res' = Err(500, "Associated event missing")
                         /\ bookings' = [bookings EXCEPT ![idx] = b0]
                    ELSE IF Has(update, "seats")
                            /\ NotEnoughForUpdate(seatsOther, newSeats,
                                                  events[ei].capacity)
                    THEN /\ res' = Err(400,
                               "Not enough seats available for this update")
                         /\ bookings' = [bookings EXCEPT ![idx] = b0]
                    ELSE /\ bookings' = [bookings EXCEPT ![idx] =
                                           IF Has(update, "seats")
                                           THEN [b0 EXCEPT !.seats = newSeats]
                                           ELSE b0]
                         /\ res' = Ok(200, bookings'[idx])
        /\ UNCHANGED events

PutBooking(pid, update) ==
    LET id == StrToNumber(pid)
        idx == FindIndex(bookings, id)
    IN  /\ req' = [op |-> "PutBooking", id |-> pid, body |-> update]
        /\ IF idx = 0
           THEN /\ res' = Err(404, "Booking not found")
                /\ UNCHANGED bookings
           ELSE LET ei == FindIndex(events, Num(bookings[idx].eventId))
                    newSeats == ToNumber(update.seats)
                    seatsOther == SumSeats(OtherBookings(bookings, idx))
                IN  IF Has(update, "seats") /\ ei = 0
                    THEN /\ res' = Err(500, "Associated event missing")
                         /\ UNCHANGED bookings
                    ELSE IF Has(update, "seats")
                            /\ NotEnoughForUpdate(seatsOther, newSeats,
                                                  events[ei].capacity)
                    THEN /\ res' = Err(400,
                               "Not enough seats available for this update")
                         /\ UNCHANGED bookings
                    ELSE LET b1 == IF Has(update, "seats")
                                   THEN [bookings[idx] EXCEPT !.seats = newSeats]
                                   ELSE bookings[idx]
                         IN  /\ bookings' = [bookings EXCEPT ![idx] =
                                               ApplyBookingText(b1, update)]
                             /\ res' = Ok(200, bookings'[idx])
        /\ UNCHANGED events

\* variant: cancelling a booking also removes its event
DeleteBooking_AndEvent(pid) ==
    LET id == StrToNumber(pid)
        idx == FindIndex(bookings, id)
    IN  /\ req' = [op |-> "DeleteBooking", id |-> pid]
        /\ IF idx = 0
           THEN /\ res' = Err(404, "Booking not found")
                /\ UNCHANGED <<events, bookings>>
           ELSE /\ bookings' = RemoveAt(bookings, idx)
                /\ events' = SelectSeq(events,
                                 LAMBDA e : e.id # bookings[idx].eventId)
                /\ res' = Ok(200, [message |-> "Booking cancelled",
                                   booking |-> bookings[idx]])

DeleteBooking(pid) ==
    LET id == StrToNumber(pid)
        idx == FindIndex(bookings, id)
    IN  /\ req' = [op |-> "DeleteBooking", id |-> pid]
        /\ IF idx = 0
           THEN /\ res' = Err(404, "Booking not found")
                /\ UNCHANGED bookings
           ELSE /\ bookings' = RemoveAt(bookings, idx)
                /\ res' = Ok(200, [message |-> "Booking cancelled",
                                   booking |-> bookings[idx]])
        /\ UNCHANGED events

(* -------------------- sequential (atomic) execution -------------------- *)
\* made counts the records created so far; a run creates at most MaxCreates
Bounded ==
    /\ made' = IF Len(events') > Len(events) \/ Len(bookings') > Len(bookings)
               THEN made + 1 ELSE made
    /\ made' <= MaxCreates

\* the id history and the split handler play no part in sequential runs
Quiet == Bounded /\ UNCHANGED <<held, delMax, inflight>>

Next ==
    \/ GetEvents /\ Quiet
    \/ \E body \in EventCreateBodies : PostEvent(body) /\ Quiet
    \/ \E pid \in PathIds : GetEvent(pid) /\ Quiet
    \/ \E pid \in PathIds, update \in EventUpdateBodies :
          PutEvent(pid, update) /\ Quiet
    \/ \E pid \in PathIds : DeleteEvent(pid) /\ Quiet
    \/ GetBookings /\ Quiet
    \/ \E body \in BookingCreateBodies, t \in Times :
          PostBooking(body, t) /\ Quiet
    \/ \E pid \in PathIds : GetBooking(pid) /\ Quiet
    \/ \E pid \in PathIds, update \in BookingUpdateBodies :
          PutBooking(pid, update) /\ Quiet
    \/ \E pid \in PathIds : DeleteBooking(pid) /\ Quiet

Spec == Init /\ [][Next]_vars

(* ------------------- creates and deletes with history ------------------ *)
\* held: the ids each table has ever held.  delMax: the ids whose latest
\* holder was, when deleted, the highest-id record among those the delete
\* left or removed with it.
AfterDelete(dm, arr0, arr1) ==
    LET gone == Ids(arr0) \ Ids(arr1)
    IN  (dm \ gone) \cup
        {x \in gone : \A y \in Ids(arr0) : y > x => y \in gone}

History ==
    /\ Bounded
    /\ held' = [E |-> held.E \cup Ids(events'), B |-> held.B \cup Ids(bookings')]
    /\ delMax' = [E |-> AfterDelete(delMax.E, events, events'),
                  B |-> AfterDelete(delMax.B, bookings, bookings')]
    /\ UNCHANGED inflight

NextHist ==
    \/ \E body \in EventCreateBodies : PostEvent(body) /\ History
    \/ \E pid \in PathIds : DeleteEvent(pid) /\ History
    \/ \E body \in BookingCreateBodies, t \in Times :
          PostBooking(body, t) /\ History
    \/ \E pid \in PathIds : DeleteBooking(pid) /\ History

SpecHist == Init /\ [][NextHist]_vars

(* ------------- POST /api/bookings split after the sum step ------------- *)
\* lines 139-151: validation, event lookup and the seatsBooked sum
RaceSum(p, body) ==
    /\ inflight[p] = Idle
    /\ IF BookingFieldsMissing(body)
       THEN /\ req' = [op |-> "PostBooking", body |-> body]
            /\ res' = Err(400, "eventId, name, email and seats are required")
            /\ UNCHANGED inflight
       ELSE LET eid == ToNumber(body.eventId)
            IN  IF FindIndex(events, eid) = 0
                THEN /\ req' = [op |-> "PostBooking", body |-> body]
                     /\ res' = Err(404, "Event not found")
                     /\ UNCHANGED inflight
                ELSE /\ inflight' = [inflight EXCEPT ![p] =
                         [pc |-> "summed", body |-> body,
                          seatsBooked |-> SumSeats(BookingsOf(bookings, eid))]]
                     /\ UNCHANGED <<req, res>>
    /\ UNCHANGED <<events, bookings, made, held, delMax>>

\* lines 152-165: the comparison, the append and the response
RaceAppend(p, t) ==
    /\ inflight[p] # Idle
    /\ LET body == inflight[p].body
           i == FindIndex(events, ToNumber(body.eventId))
       IN  /\ req' = [op |-> "PostBooking", body |-> body]
           /\ IF NotEnoughSeats(inflight[p].seatsBooked, ToNumber(body.seats),
                                events[i].capacity)
              THEN /\ res' = Err(400, "Not enough seats available")
                   /\ UNCHANGED bookings
              ELSE LET booking == NewBooking(bookings, body, t)
                   IN  /\ bookings' = Append(bookings, booking)
                       /\ res' = Ok(201, booking)
    /\ inflight' = [inflight EXCEPT ![p] = Idle]
    /\ UNCHANGED <<events, held, delMax>>
    /\ Bounded

NextRace ==
    \/ \E p \in Procs, body \in BookingCreateBodies : RaceSum(p, body)
    \/ \E p \in Procs, t \in Times : RaceAppend(p, t)

SpecRace == Init /\ [][NextRace]_vars

(* ============================== properties ============================= *)
\* a <= b on JS numbers: false as soon as one side is NaN
Le(a, b) == ~a.nan /\ ~b.nan /\ a.v <= b.v

\* seats booked for event eid in table bks, and the capacity test on it
SeatsBookedFor(bks, eid) == SumSeats(BookingsOf(bks, Num(eid)))

WithinCapacity(evs, bks, eid) ==
    \A i \in 1..Len(evs) :
        evs[i].id = eid => Le(SeatsBookedFor(bks, eid), evs[i].capacity)

Range(arr) == {arr[i] : i \in 1..Len(arr)}

\* C1: under sequential execution, every event's booked seats stay within
\* its capacity in every reachable state.
C1_CapacityInvariant ==
    \A i \in 1..Len(events) : WithinCapacity(events, bookings, events[i].id)

\* C2: right after a successful booking create (201), or a successful
\* booking update that supplied seats (200), the seats booked for the
\* booking's event do not exceed that event's capacity.
C2_WriteLeavesEventWithinCapacity ==
    /\ (req.op = "PostBooking" /\ res.status = 201)
          => WithinCapacity(events, bookings, res.body.eventId)
    /\ (req.op = "PutBooking" /\ res.status = 200 /\ Has(req.body, "seats"))
          => WithinCapacity(events, bookings, res.body.eventId)

\* the bookings of B's event other than B itself
OthersOf(bks, B) ==
    SelectSeq(bks, LAMBDA b : b.eventId = B.eventId /\ b.id # B.id)

\* C4: a booking update whose seats would push the others' seats plus the
\* new value over the event's capacity is answered 400 and leaves the
\* booking's seats as they were.
C4_OverCapacityUpdateRejected ==
    [][ (req'.op = "PutBooking" /\ Has(req'.body, "seats")) =>
        \A k \in 1..Len(bookings), e \in 1..Len(events) :
          ( /\ StrictEqId(StrToNumber(req'.id), bookings[k].id)
            /\ events[e].id = bookings[k].eventId
            /\ Gt(Plus(SumSeats(OthersOf(bookings, bookings[k])),
                       ToNumber(req'.body.seats)),
                  events[e].capacity) )
          => /\ res'.status = 400
             /\ Len(bookings') = Len(bookings)
             /\ bookings'[k].id = bookings[k].id
             /\ bookings'[k].seats = bookings[k].seats
      ]_vars

C4_Witness ==
    /\ req.op = "PutBooking"
    /\ Has(req.body, "seats")
    /\ req.body.seats = RawNum(100)
    /\ res.status = 400
    /\ Len(bookings) = 2
    /\ bookings[1].seats = Num(1)
    /\ bookings[2].seats = Num(99)

\* C5: a successful DELETE /event/X answers with the deleted event, leaves
\* no event with id X and no booking with eventId X (so the reads of X and
\* of those bookings give 404), and keeps every other booking unchanged.
C5_DeleteEventCascades ==
    [][ (req'.op = "DeleteEvent" /\ res'.status = 200) =>
          LET X == StrToNumber(req'.id).v
          IN  /\ res'.body.event \in Range(events)
              /\ res'.body.event.id = X
              /\ X \notin Ids(events')
              /\ FindIndex(events', Num(X)) = 0
              /\ \A b \in Range(bookings') : b.eventId # X
              /\ \A b \in Range(bookings) :
                    b.eventId = X => FindIndex(bookings', Num(b.id)) = 0
              /\ \A b \in Range(bookings) :
                    b.eventId # X => b \in Range(bookings')
              /\ Range(bookings') \subseteq Range(bookings)
      ]_vars

C5_Witness ==
    /\ req.op = "DeleteEvent"
    /\ res.status = 200
    /\ res.body.event.id = 1
    /\ Len(events) = 1
    /\ Len(bookings) = 1

\* C6: a booking create with all required fields, an existing event and
\* numeric seats s is answered 400 'Not enough seats available' exactly
\* when booked + s > capacity, and otherwise 201 with one booking of s
\* seats appended; from the seed state 100 seats are refused and 99 are
\* accepted, leaving 100 booked.
C6_CreateCapacityRule ==
    [][ req'.op = "PostBooking" =>
        \A e \in 1..Len(events) :
          ( /\ ~BookingFieldsMissing(req'.body)
            /\ StrictEqId(ToNumber(req'.body.eventId), events[e].id)
            /\ ~ToNumber(req'.body.seats).nan )
          => LET s == ToNumber(req'.body.seats)
                 booked == SeatsBookedFor(bookings, events[e].id)
                 seed == events = SeedEvents /\ bookings = SeedBookings
             IN  /\ IF Gt(Plus(booked, s), events[e].capacity)
                    THEN /\ res' = Err(400, "Not enough seats available")
                         /\ bookings' = bookings
                    ELSE /\ res'.status = 201
                         /\ Len(bookings') = Len(bookings) + 1
                         /\ SubSeq(bookings', 1, Len(bookings)) = bookings
                         /\ bookings'[Len(bookings')].seats = s
                         /\ res'.body = bookings'[Len(bookings')]
                 /\ (seed /\ s = Num(100)) => res'.status = 400
                 /\ (seed /\ s = Num(99))
                      => /\ res'.status = 201
                         /\ SeatsBookedFor(bookings', 1) = Num(100)
      ]_vars

C6_Witness ==
    /\ req.op = "PostBooking"
    /\ req.body.seats = RawNum(99)
    /\ res.status = 201
    /\ events = SeedEvents
    /\ SeatsBookedFor(bookings, 1) = Num(SeedCapacity)

\* C7: no two events share an id, no two bookings share an id, and every
\* id is a positive integer.
C7_IdsUniquePositive ==
    /\ \A i, j \in 1..Len(events) : events[i].id = events[j].id => i = j
    /\ \A i, j \in 1..Len(bookings) : bookings[i].id = bookings[j].id => i = j
    /\ \A i \in 1..Len(events) : events[i].id \in Nat \ {0}
    /\ \A i \in 1..Len(bookings) : bookings[i].id \in Nat \ {0}

C7_Witness ==
    /\ Len(events) = 2
    /\ events[1].id = 2
    /\ events[2].id = 3
    /\ req.op = "PostEvent"
    /\ res.status = 201

\* C9: the id returned by a successful POST /events/add is greater than
\* every event id in the table at call time: the largest plus one, or 1
\* for an empty table.
C9_NewEventIdAboveExisting ==
    [][ (req'.op = "PostEvent" /\ res'.status = 201) =>
          /\ \A i \in 1..Len(events) : res'.body.id > events[i].id
          /\ events = <<>> => res'.body.id = 1
          /\ events # <<>>
               => \E i \in 1..Len(events) : res'.body.id = events[i].id + 1
      ]_vars

C9_Witness ==
    /\ req.op = "PostEvent"
    /\ res.status = 201
    /\ res.body.id = 1
    /\ Len(events) = 1
    /\ bookings = <<>>

\* C10: the seats of every booking in the table are a positive integer.
C10_SeatsPositive ==
    \A i \in 1..Len(bookings) :
        ~bookings[i].seats.nan /\ bookings[i].seats.v >= 1

Overbooked(evs, bks, eid) ==
    \E i \in 1..Len(evs) :
        evs[i].id = eid /\ Gt(SeatsBookedFor(bks, eid), evs[i].capacity)

\* C3: when two booking creations for one event may both take the sum step
\* before either appends, an overbooked state is reachable although each
\* request alone fits (C3_Witness); and an append overbooks an event only
\* when the sum it relies on is no longer the event's booked total.
C3_OverbookOnlyOnStaleSum ==
    [][ \A p \in Procs :
          ( /\ inflight[p] # Idle
            /\ inflight'[p] = Idle
            /\ res'.status = 201
            /\ ~Overbooked(events, bookings, res'.body.eventId)
            /\ Overbooked(events, bookings', res'.body.eventId) )
          => inflight[p].seatsBooked
                # SeatsBookedFor(bookings, res'.body.eventId)
      ]_vars

C3_Witness ==
    /\ Len(bookings) = 3
    /\ Overbooked(events, bookings, 1)
    /\ \A i \in 2..3 :
          /\ bookings[i].eventId = 1
          /\ bookings[i].seats.v >= 1
          /\ Le(Plus(bookings[1].seats, bookings[i].seats), events[1].capacity)

\* the record a create appended, if the step is a create
Created(arr0, arr1) ==
    IF Len(arr1) = Len(arr0) + 1 THEN {arr1[Len(arr1)].id} ELSE {}

\* C8 as stated: a create hands out an id held before only if the deleted
\* record that held it was the highest-id record when it was deleted.
C8_ReuseOnlyOfDeletedHighest ==
    [][ /\ \A n \in Created(events, events') :
              n \in held.E => n \in delMax.E
        /\ \A n \in Created(bookings, bookings') :
              n \in held.B => n \in delMax.B
      ]_vars

\* C8 amended: a create hands out an id held before only if, at the time
\* of the create, every record that ever held that id or a higher one is
\* gone from the table (it need not have been the highest when deleted).
C8_ReuseOnlyAboveAllPresent ==
    [][ /\ \A n \in Created(events, events') :
              n \in held.E =>
                 \A m \in held.E : m >= n => m \notin Ids(events)
        /\ \A n \in Created(bookings, bookings') :
              n \in held.B =>
                 \A m \in held.B : m >= n => m \notin Ids(bookings)
      ]_vars

C8_Witness ==
    /\ req.op = "PostEvent"
    /\ res.status = 201
    /\ res.body.id = 1
    /\ 1 \notin delMax.E
    /\ 2 \in held.E


\* C11: a GET /event/:id issued right after a successful POST /events/add,
\* with the id of the record the POST returned, answers 200 with a record
\* equal to it in every field.
C11_CreateThenReadRoundTrip ==
    [][ ( /\ req.op = "PostEvent"
          /\ res.status = 201
          /\ req'.op = "GetEvent"
          /\ StrictEqId(StrToNumber(req'.id), res.body.id) )
        => /\ res'.status = 200
           /\ res'.body = res.body
           /\ DOMAIN res'.body
                = {"id", "title", "description", "date", "capacity", "location"}
      ]_vars

C11_Witness ==
    /\ req.op = "GetEvent"
    /\ req.id = <<"2">>
    /\ res.status = 200
    /\ res.body.title = "T1"
    /\ res.body.description = ""
    /\ res.body.capacity = Num(2)
    /\ made = 1


\* no record of arr has the id x
NoSuch(arr, x) == \A i \in 1..Len(arr) : ~StrictEqId(x, arr[i].id)

EventIdOps == {"GetEvent", "PutEvent", "DeleteEvent"}
BookingIdOps == {"GetBooking", "PutBooking", "DeleteBooking"}

\* the required fields of the create request r are not all present and truthy
RequiredMissing(r) ==
    \/ /\ r.op = "PostEvent"
       /\ \/ MissingText(r.body, "title")
          \/ MissingText(r.body, "date")
          \/ MissingRaw(r.body, "capacity")
    \/ /\ r.op = "PostBooking"
       /\ \/ MissingRaw(r.body, "eventId")
          \/ MissingText(r.body, "name")
          \/ MissingText(r.body, "email")
          \/ MissingRaw(r.body, "seats")

\* the seats the booking request r asks for do not fit the event's capacity
CapacityExceeded(evs, bks, r) ==
    \/ /\ r.op = "PostBooking"
       /\ \E e \in 1..Len(evs) :
            /\ StrictEqId(ToNumber(r.body.eventId), evs[e].id)
            /\ Gt(Plus(SeatsBookedFor(bks, evs[e].id), ToNumber(r.body.seats)),
                  evs[e].capacity)
    \/ /\ r.op = "PutBooking"
       /\ Has(r.body, "seats")
       /\ \E k \in 1..Len(bks), e \in 1..Len(evs) :
            /\ StrictEqId(StrToNumber(r.id), bks[k].id)
            /\ evs[e].id = bks[k].eventId
            /\ Gt(Plus(SumSeats(OthersOf(bks, bks[k])), ToNumber(r.body.seats)),
                  evs[e].capacity)

\* the id the request r names resolves to no record
ResolvesToNothing(evs, bks, r) ==
    \/ r.op \in EventIdOps /\ NoSuch(evs, StrToNumber(r.id))
    \/ r.op \in BookingIdOps /\ NoSuch(bks, StrToNumber(r.id))
    \/ r.op = "PostBooking" /\ NoSuch(evs, ToNumber(r.body.eventId))

C13_BookingCheckOrder ==
    [][ req'.op = "PostBooking" =>
          IF RequiredMissing(req')
          THEN res' = Err(400, "eventId, name, email and seats are required")
          ELSE IF NoSuch(events, ToNumber(req'.body.eventId))
          THEN res' = Err(404, "Event not found")
          ELSE IF CapacityExceeded(events, bookings, req')
          THEN res' = Err(400, "Not enough seats available")
          ELSE res'.status = 201
      ]_vars

\* a request with seats 0 for an event that does not exist is answered 400
C13_Witness ==
    /\ req.op = "PostBooking"
    /\ req.body.eventId = RawNum(7)
    /\ req.body.seats = RawNum(0)
    /\ 7 \notin Ids(events)
    /\ res = Err(400, "eventId, name, email and seats are required")
    /\ made = 1


\* C14: a booking update that supplies numeric seats n for booking B of
\* event E is accepted exactly when the seats of E's other bookings plus n
\* are at most E's capacity; B's own current seats are not counted.
C14_UpdateAcceptedIffFits ==
    [][ ( /\ req'.op = "PutBooking"
          /\ Has(req'.body, "seats")
          /\ ~ToNumber(req'.body.seats).nan ) =>
        \A k \in 1..Len(bookings), e \in 1..Len(events) :
          ( /\ StrictEqId(StrToNumber(req'.id), bookings[k].id)
            /\ events[e].id = bookings[k].eventId )
          => ( res'.status = 200
               <=> Le(Plus(SumSeats(OthersOf(bookings, bookings[k])),
                           ToNumber(req'.body.seats)),
                      events[e].capacity) )
      ]_vars


\* the field k of record r1 is the body's value of it if the body has one,
\* and its value in r0 otherwise
TakenOrKept(r0, r1, body, k) ==
    r1[k] = IF Has(body, k) THEN body[k] ELSE r0[k]

\* C15: a successful PUT /event/:id changes at most title, description,
\* date, capacity and location of the addressed event, never its id; a
\* successful PUT /api/bookings/:id changes at most seats, name, email and
\* phone of the addressed booking, never its id, eventId or createdAt;
\* other body fields are ignored and every other record is unchanged.
C15_UpdatesOnlyWhitelisted ==
    [][ /\ (req'.op = "PutEvent" /\ res'.status = 200) =>
            /\ bookings' = bookings
            /\ Len(events') = Len(events)
            /\ \A i \in 1..Len(events) :
                 IF StrictEqId(StrToNumber(req'.id), events[i].id)
                 THEN /\ DOMAIN events'[i] = DOMAIN events[i]
                      /\ events'[i].id = events[i].id
                      /\ \A k \in {"title", "description", "date", "location"} :
                           TakenOrKept(events[i], events'[i], req'.body, k)
                      /\ events'[i].capacity =
                           IF Has(req'.body, "capacity")
                           THEN ToNumber(req'.body.capacity)
                           ELSE events[i].capacity
                 ELSE events'[i] = events[i]
        /\ (req'.op = "PutBooking" /\ res'.status = 200) =>
            /\ events' = events
            /\ Len(bookings') = Len(bookings)
            /\ \A i \in 1..Len(bookings) :
                 IF StrictEqId(StrToNumber(req'.id), bookings[i].id)
                 THEN /\ DOMAIN bookings'[i] = DOMAIN bookings[i]
                      /\ bookings'[i].id = bookings[i].id
                      /\ bookings'[i].eventId = bookings[i].eventId
                      /\ bookings'[i].createdAt = bookings[i].createdAt
                      /\ \A k \in {"name", "email", "phone"} :
                           TakenOrKept(bookings[i], bookings'[i], req'.body, k)
                      /\ ~Has(req'.body, "seats")
                           => bookings'[i].seats = bookings[i].seats
                 ELSE bookings'[i] = bookings[i]
      ]_vars

\* an update whose body carries id, eventId and createdAt next to the text
\* fields has been applied to booking 2 of event 1
C15_Witness ==
    /\ req.op = "PutBooking"
    /\ req.id = <<"2">>
    /\ Has(req.body, "eventId") /\ req.body.eventId = 2
    /\ Has(req.body, "createdAt") /\ req.body.createdAt = 5
    /\ req.body.id = 9
    /\ res.status = 200
    /\ res.body.id = 2
    /\ res.body.eventId = 1
    /\ res.body.createdAt = 1
    /\ res.body.name = "n1"
    /\ Len(bookings) = 2


\* C16: a booking create or update whose seats are not numeric passes the
\* capacity check whatever is already booked: for an existing event the
\* create is answered 201 and the update 200, and the booking's seats
\* become not-a-number.
C16_NonNumericSeatsBypassCapacity ==
    [][ /\ ( /\ req'.op = "PostBooking"
             /\ ~RequiredMissing(req')
             /\ ToNumber(req'.body.seats).nan
             /\ ~NoSuch(events, ToNumber(req'.body.eventId)) )
            => /\ res'.status = 201
               /\ res'.body.seats = NaN
               /\ bookings' = Append(bookings, res'.body)
        /\ ( /\ req'.op = "PutBooking"
             /\ Has(req'.body, "seats")
             /\ ToNumber(req'.body.seats).nan )
            => \A k \in 1..Len(bookings) :
                 ( /\ StrictEqId(StrToNumber(req'.id), bookings[k].id)
                   /\ bookings[k].eventId \in Ids(events) )
                 => /\ res'.status = 200
                    /\ res'.body.seats = NaN
                    /\ bookings'[k].seats = NaN
      ]_vars

\* event 1 is full (1 + 99 of 100 seats) and booking 1 is then updated
\* with seats "ab"
C16_Witness ==
    /\ req.op = "PutBooking"
    /\ req.id = <<"1">>
    /\ Has(req.body, "seats")
    /\ req.body.seats = RawStr(<<"a", "b">>)
    /\ res.status = 200
    /\ Len(bookings) = 2
    /\ bookings[1].seats = NaN
    /\ bookings[2].seats = Num(99)
    /\ bookings[2].eventId = bookings[1].eventId


\* C17: under sequential requests every booking's eventId is the id of an
\* event in the events table, and so no request is answered 500
\* 'Associated event missing'.
C17_NoOrphanBooking ==
    /\ \A i \in 1..Len(bookings) : bookings[i].eventId \in Ids(events)
    /\ res.status # 500
    /\ res # Err(500, "Associated event missing")

\* event 1 and its booking are gone, and a seats update of the remaining
\* booking of event 2 went through the event lookup
C17_Witness ==
    /\ req.op = "PutBooking"
    /\ Has(req.body, "seats")
    /\ res = Err(400, "Not enough seats available for this update")
    /\ Len(events) = 1
    /\ events[1].id = 2
    /\ Len(bookings) = 1
    /\ bookings[1].eventId = 2


\* C18: a request answered 400, 404 or 500 leaves the events table and the
\* bookings table exactly as they were; a booking update rejected for
\* capacity applies none of the name, email or phone of its body.
C18_ErrorsChangeNothing ==
    [][ (req'.op # "none" /\ res'.status \in {400, 404, 500}) =>
          /\ events' = events
          /\ bookings' = bookings
      ]_vars

\* booking 1 keeps its name after a rejected update that also supplied one
C18_Witness ==
    /\ req.op = "PutBooking"
    /\ req.id = <<"1">>
    /\ Has(req.body, "seats") /\ Has(req.body, "name")
    /\ req.body.name = "n2"
    /\ res = Err(400, "Not enough seats available for this update")
    /\ bookings # <<>>
    /\ bookings[1].id = 1
    /\ bookings[1].name # "n2"


ReadOps == {"GetEvents", "GetEvent", "GetBookings", "GetBooking"}

\* C19: booking create, update and delete and every GET leave the events
\* table unchanged; event create and update and every GET leave the
\* bookings table unchanged; only DELETE /event/:id changes both tables.
C19_TablesChangedByOwnOperations ==
    [][ /\ req'.op \in ReadOps \cup {"PostBooking", "PutBooking", "DeleteBooking"}
            => events' = events
        /\ req'.op \in ReadOps \cup {"PostEvent", "PutEvent"}
            => bookings' = bookings
        /\ (events' # events /\ bookings' # bookings) => req'.op = "DeleteEvent"
      ]_vars

\* after two creates the last event, the seed event, was deleted and both
\* tables are empty with it
C19_Witness ==
    /\ req.op = "DeleteEvent"
    /\ req.id = <<"1">>
    /\ res.status = 200
    /\ res.body.event.id = 1
    /\ made = 2
    /\ events = <<>>
    /\ bookings = <<>>

====
